---- MODULE Spec2Model ----
(***************************************************************************)
(* Model of pdf_flattener/cli.py: the flatten_pdf pipeline (rasterize,     *)
(* assemble, compact, resolve dates, set metadata, move, set file times),  *)
(* the safe_temp_file context manager, set_metadata and                    *)
(* create_pdf_from_images.  Strings are sequences of one-character         *)
(* strings; the argument None is the one-token sequence <<"None">>.        *)
(***************************************************************************)
EXTENDS Integers, Sequences, FiniteSets, TLC

\* Largest number of pages of the input document.
MaxPages == 2

(***************************************************************************)
(* Strings, digits, calendar                                               *)
(***************************************************************************)
NoneArg == <<"None">>
EmptyStr == <<>>

Digits == <<"0", "1", "2", "3", "4", "5", "6", "7", "8", "9">>

IsDigit(c) == \E i \in 1..10 : Digits[i] = c

DigitVal(c) == (CHOOSE i \in 1..10 : Digits[i] = c) - 1

AllDigits(s) == \A i \in 1..Len(s) : IsDigit(s[i])

RECURSIVE NumVal(_)
NumVal(s) == IF s = <<>> THEN 0
             ELSE 10 * NumVal(SubSeq(s, 1, Len(s) - 1)) + DigitVal(s[Len(s)])

RECURSIVE Pad(_, _)
\* %0Nd : n written with exactly `width` digits (n < 10^width)
Pad(n, width) == IF width = 0 THEN <<>>
                 ELSE Append(Pad(n \div 10, width - 1), Digits[(n % 10) + 1])

IsLeap(y) == (y % 4 = 0) /\ ((y % 100 # 0) \/ (y % 400 = 0))

DaysInMonth(y, m) ==
    IF m = 2 THEN (IF IsLeap(y) THEN 29 ELSE 28)
    ELSE IF m \in {4, 6, 9, 11} THEN 30 ELSE 31

\* datetime(year, month, day, hour, minute, second, microsecond), naive
DateTime(y, mo, d, h, mi, s, us) ==
    [year |-> y, month |-> mo, day |-> d,
     hour |-> h, minute |-> mi, second |-> s, microsecond |-> us]

NoDt == DateTime(0, 0, 0, 0, 0, 0, 0)

\* the value a failed strptime stands for (ValueError raised)
ValueErr == DateTime(-1, 0, 0, 0, 0, 0, 0)

ValidDate(y, mo, d) ==
    /\ y \in 1..9999
    /\ mo \in 1..12
    /\ d >= 1
    /\ d <= DaysInMonth(y, mo)

\* positions of the "-" separators of s
Dashes(s) == {i \in 1..Len(s) : s[i] = "-"}

\* a one or two digit field of strptime (%m, %d): 1..9, 01..09, 10..
FieldOk(f) ==
    /\ Len(f) \in {1, 2}
    /\ AllDigits(f)
    /\ NumVal(f) >= 1

StrptimeDate_anyDay(s) ==
    IF Cardinality(Dashes(s)) # 2 \/ ~(5 \in Dashes(s)) THEN ValueErr
    ELSE LET d2 == CHOOSE i \in Dashes(s) : i # 5
             ys == SubSeq(s, 1, 4)
             ms == SubSeq(s, 6, d2 - 1)
             ds == SubSeq(s, d2 + 1, Len(s))
         IN IF /\ AllDigits(ys)
               /\ FieldOk(ms)
               /\ FieldOk(ds)
            THEN DateTime(NumVal(ys), NumVal(ms), NumVal(ds), 0, 0, 0, 0)
            ELSE ValueErr

\* datetime.strptime(s, "%Y-%m-%d"): ValueErr when s does not match
StrptimeDate(s) ==
    IF Cardinality(Dashes(s)) # 2 \/ ~(5 \in Dashes(s)) THEN ValueErr
    ELSE LET d2 == CHOOSE i \in Dashes(s) : i # 5
             ys == SubSeq(s, 1, 4)
             ms == SubSeq(s, 6, d2 - 1)
             ds == SubSeq(s, d2 + 1, Len(s))
         IN IF /\ AllDigits(ys)
               /\ FieldOk(ms)
               /\ FieldOk(ds)
               /\ ValidDate(NumVal(ys), NumVal(ms), NumVal(ds))
            THEN DateTime(NumVal(ys), NumVal(ms), NumVal(ds), 0, 0, 0, 0)
            ELSE ValueErr

\* dt.strftime("%Y-%m-%d")
StrftimeDate(dt) ==
    Pad(dt.year, 4) \o <<"-">> \o Pad(dt.month, 2) \o <<"-">> \o Pad(dt.day, 2)

\* datetime.strptime(s[2:16], "%Y%m%d%H%M%S") on a PDF date string s
StrptimePdf(s) ==
    LET t == SubSeq(s, 3, IF Len(s) < 16 THEN Len(s) ELSE 16)
    IN IF Len(t) # 14 \/ ~AllDigits(t) THEN ValueErr
       ELSE LET y  == NumVal(SubSeq(t, 1, 4))
                mo == NumVal(SubSeq(t, 5, 6))
                d  == NumVal(SubSeq(t, 7, 8))
                h  == NumVal(SubSeq(t, 9, 10))
                mi == NumVal(SubSeq(t, 11, 12))
                sc == NumVal(SubSeq(t, 13, 14))
            IN IF ValidDate(y, mo, d) /\ h <= 23 /\ mi <= 59 /\ sc <= 59
               THEN DateTime(y, mo, d, h, mi, sc, 0)
               ELSE ValueErr

\* a < b on naive datetimes
DtLess(a, b) ==
    LET ka == <<a.year, a.month, a.day, a.hour, a.minute, a.second, a.microsecond>>
        kb == <<b.year, b.month, b.day, b.hour, b.minute, b.second, b.microsecond>>
    IN \E i \in 1..7 : /\ ka[i] < kb[i]
                       /\ \A j \in 1..(i - 1) : ka[j] = kb[j]


RECURSIVE MonthDays(_, _)
\* days in the first k months of year y
MonthDays(y, k) == IF k = 0 THEN 0 ELSE DaysInMonth(y, k) + MonthDays(y, k - 1)

\* days from 0001-01-01 to the given date (date.toordinal() - 1)
DaysBefore(y, mo, d) ==
    LET p == y - 1
    IN 365 * p + (p \div 4) - (p \div 100) + (p \div 400)
           + MonthDays(y, mo - 1) + (d - 1)

\* dt.timestamp(): seconds since 1970-01-01 and the microseconds of the
\* fraction, local time zone taken to be UTC
Timestamp(dt) ==
    LET days == DaysBefore(dt.year, dt.month, dt.day) - DaysBefore(1970, 1, 1)
    IN [sec |-> ((days * 24 + dt.hour) * 60 + dt.minute) * 60 + dt.second,
        usec |-> dt.microsecond]

\* dt.strftime("%Y%m%d%H%M"), the argument of touch -t
StrftimeTouch(dt) ==
    Pad(dt.year, 4) \o Pad(dt.month, 2) \o Pad(dt.day, 2)
        \o Pad(dt.hour, 2) \o Pad(dt.minute, 2)

\* the instant touch -t CCYYMMDDhhmm sets: no .SS given, seconds are 0
TouchTime(s) ==
    Timestamp(DateTime(NumVal(SubSeq(s, 1, 4)), NumVal(SubSeq(s, 5, 6)),
                       NumVal(SubSeq(s, 7, 8)), NumVal(SubSeq(s, 9, 10)),
                       NumVal(SubSeq(s, 11, 12)), 0, 0))

(***************************************************************************)
(* Date resolution in flatten_pdf                                          *)
(***************************************************************************)
\* Python truthiness of an optional string argument
Truthy(s) == s # NoneArg /\ s # EmptyStr

Combine_dropSeconds(date_arg, original_dt) ==
    IF Truthy(date_arg)
    THEN LET parsed == StrptimeDate(date_arg)
         IN IF parsed = ValueErr THEN ValueErr
            ELSE [parsed EXCEPT !.hour = original_dt.hour,
                                !.minute = original_dt.minute]
    ELSE original_dt

\* lines 247-265: user calendar date with the original's hour, minute and
\* second, or the original instant when no date is given
Combine(date_arg, original_dt) ==
    IF Truthy(date_arg)
    THEN LET parsed == StrptimeDate(date_arg)
         IN IF parsed = ValueErr THEN ValueErr
            ELSE [parsed EXCEPT !.hour = original_dt.hour,
                                !.minute = original_dt.minute,
                                !.second = original_dt.second]
    ELSE original_dt

Clamp_never(c_dt, m_dt) == m_dt

\* lines 268-269
Clamp(c_dt, m_dt) == IF DtLess(m_dt, c_dt) THEN c_dt ELSE m_dt

(***************************************************************************)
(* Files and documents                                                     *)
(***************************************************************************)
File(kind, pages, cd, md, state) ==
    [kind |-> kind, pages |-> pages, creationDate |-> cd, modDate |-> md,
     state |-> state]

Absent == File("absent", <<>>, <<>>, <<>>, "none")

EmptyFile == File("empty", <<>>, <<>>, <<>>, "none")

OutPath == <<"out", 0>>
AsmPath == <<"asm", 0>>
CmpPath == <<"cmp", 0>>
JpgPath(i) == <<"jpg", i>>

TempPaths == {AsmPath, CmpPath} \cup {JpgPath(i) : i \in 1..MaxPages}

Paths == {OutPath} \cup TempPaths

\* image.save(path, format="JPEG", quality=50): lossy payload, same size
JpegSave(image) == [image EXCEPT !.encoding = "jpeg50"]

NewPage_swapped(pages, pix) ==
    Append(pages, [width |-> pix.height, height |-> pix.width,
                   image |-> pix.index, encoding |-> pix.encoding])

\* doc.new_page(width, height) then page.insert_image(page.rect, pixmap)
NewPage(pages, pix) ==
    Append(pages, [width |-> pix.width, height |-> pix.height,
                   image |-> pix.index, encoding |-> pix.encoding])

\* compress_pdf: doc.save(output, garbage=4, deflate=True, clean=True)
CompressPdf(f) == [f EXCEPT !.state = "compacted"]

FormatDate_noOffset(dt) ==
    <<"D", ":">> \o Pad(dt.year, 4) \o Pad(dt.month, 2) \o Pad(dt.day, 2)
        \o Pad(dt.hour, 2) \o Pad(dt.minute, 2) \o Pad(dt.second, 2)
        \o <<"Z">>

\* format_date: dt.strftime("D:%Y%m%d%H%M%S+00'00'")
FormatDate(dt) ==
    <<"D", ":">> \o Pad(dt.year, 4) \o Pad(dt.month, 2) \o Pad(dt.day, 2)
        \o Pad(dt.hour, 2) \o Pad(dt.minute, 2) \o Pad(dt.second, 2)
        \o <<"+", "0", "0", "'", "0", "0", "'">>

SetMetadata_swallow(f, c_arg, m_arg, open_ok, save) ==
    LET c_dt == IF Truthy(c_arg) THEN StrptimeDate(c_arg) ELSE NoDt
        m_dt == IF Truthy(m_arg) THEN StrptimeDate(m_arg) ELSE NoDt
        updated == [f EXCEPT
                      !.creationDate = IF Truthy(c_arg) THEN FormatDate(c_dt) ELSE <<>>,
                      !.modDate = IF Truthy(m_arg) THEN FormatDate(m_dt) ELSE <<>>,
                      !.state = "updated"]
    IN IF ~open_ok THEN [exc |-> "OpenError", file |-> f]
       ELSE IF c_dt = ValueErr \/ m_dt = ValueErr
            THEN [exc |-> "ValueError", file |-> f]
       ELSE IF save = "ok" THEN [exc |-> "none", file |-> updated]
       ELSE IF save = "partial"
            THEN [exc |-> "none", file |-> [f EXCEPT !.state = "partial"]]
       ELSE [exc |-> "none", file |-> f]

\* set_metadata(pdf_path, creation_date, modification_date) on the file f
\* at pdf_path.  open_ok: fitz.open succeeds; save: outcome of the
\* incremental doc.save onto pdf_path itself ("ok", "fail" before anything
\* is written, "partial" after part of the revision was appended).
SetMetadata(f, c_arg, m_arg, open_ok, save) ==
    LET c_dt == IF Truthy(c_arg) THEN StrptimeDate(c_arg) ELSE NoDt
        m_dt == IF Truthy(m_arg) THEN StrptimeDate(m_arg) ELSE NoDt
        \* doc.set_metadata(new_metadata): keys not supplied are cleared
        updated == [f EXCEPT
                      !.creationDate = IF Truthy(c_arg) THEN FormatDate(c_dt) ELSE <<>>,
                      !.modDate = IF Truthy(m_arg) THEN FormatDate(m_dt) ELSE <<>>,
                      !.state = "updated"]
    IN IF ~open_ok THEN [exc |-> "OpenError", file |-> f]
       ELSE IF c_dt = ValueErr \/ m_dt = ValueErr
            THEN [exc |-> "ValueError", file |-> f]
       ELSE IF save = "ok" THEN [exc |-> "none", file |-> updated]
       ELSE IF save = "partial"
            THEN [exc |-> "SaveError", file |-> [f EXCEPT !.state = "partial"]]
       ELSE [exc |-> "SaveError", file |-> f]

(***************************************************************************)
(* safe_temp_file                                                          *)
(***************************************************************************)
RemoveOutcomes(plat) ==
    IF plat = "Windows" THEN {"ok", "fail", "retry_ok"} ELSE {"ok", "fail"}

Release_keep(d, p, plat, outcome) == d

\* the finally block: os.remove when the file exists; on OSError a warning
\* is logged and, on Windows, DeleteFileW is tried once
Release(d, p, plat, outcome) ==
    IF d[p].kind = "absent" THEN d
    ELSE IF outcome = "ok" THEN [d EXCEPT ![p] = Absent]
    ELSE IF outcome = "retry_ok" /\ plat = "Windows" THEN [d EXCEPT ![p] = Absent]
    ELSE d

\* os.remove raised OSError in the finally block
RemoveRaised(d, p, outcome) == d[p].kind # "absent" /\ outcome # "ok"

(***************************************************************************)
(* set_file_times                                                          *)
(***************************************************************************)
NoTime == [sec |-> 0, usec |-> 0]

NoTimes == [set |-> FALSE, atime |-> NoTime, mtime |-> NoTime,
            creation_set |-> FALSE, creation |-> NoTime]

FileTimeOutcomes(plat) ==
    IF plat = "Darwin" THEN {"ok", "utime_fail", "touch_fail", "utime2_fail"}
    ELSE {"ok", "utime_fail"}

\* set_file_times(file_path, creation_dt, modification_dt)
SetFileTimes(t, plat, c_dt, m_dt, outcome) ==
    LET mod_timestamp == Timestamp(m_dt)
        t1 == [t EXCEPT !.set = TRUE, !.atime = mod_timestamp,
                        !.mtime = mod_timestamp]
        touched == TouchTime(StrftimeTouch(c_dt))
        t2 == [t1 EXCEPT !.atime = touched, !.mtime = touched,
                         !.creation_set = TRUE, !.creation = touched]
    IN IF outcome = "utime_fail" THEN [exc |-> "OSError", times |-> t]
       ELSE IF plat # "Darwin" THEN [exc |-> "none", times |-> t1]
       ELSE IF outcome = "touch_fail" THEN [exc |-> "none", times |-> t1]
       ELSE IF outcome = "utime2_fail" THEN [exc |-> "OSError", times |-> t2]
       ELSE [exc |-> "none",
             times |-> [t2 EXCEPT !.atime = mod_timestamp,
                                  !.mtime = mod_timestamp]]


(***************************************************************************)
(* Inputs                                                                  *)
(***************************************************************************)
Platforms == {"Linux", "Darwin", "Windows"}

\* --creation-date: None, "", a calendar date, and 30 February
CreationArgs ==
    {NoneArg, EmptyStr,
     <<"2", "0", "2", "1", "-", "0", "6", "-", "1", "5">>,
     <<"2", "0", "2", "1", "-", "0", "2", "-", "3", "0">>}

\* --modification-date: None, "", a calendar date, and month 13
ModificationArgs ==
    {NoneArg, EmptyStr,
     <<"2", "0", "2", "1", "-", "0", "1", "-", "0", "1">>,
     <<"2", "0", "2", "1", "-", "1", "3", "-", "0", "1">>}

\* creationDate / modDate of the input document's metadata ("" when absent)
OriginalCreationDates ==
    {EmptyStr,
     <<"D", ":", "2", "0", "2", "0", "0", "1", "0", "1", "1", "0", "0", "0", "0", "0", "+", "0", "0", "'", "0", "0", "'">>,
     <<"D", ":", "2", "0", "2", "0", "0", "1", "0", "1", "1", "0", "0", "0", "3", "0", "Z">>,
     <<"D", ":", "2", "0", "2", "0">>}

OriginalModDates ==
    {EmptyStr,
     <<"D", ":", "2", "0", "2", "0", "0", "1", "0", "2", "1", "1", "0", "0", "0", "0", "+", "0", "0", "'", "0", "0", "'">>}

\* datetime.fromtimestamp(os.path.getctime / getmtime) of the input file
FsCtimes == {DateTime(2022, 3, 4, 5, 6, 7, 8)}

FsMtimes == {DateTime(2022, 3, 3, 5, 6, 9, 1)}

Dims == {<<1, 2>>, <<2, 1>>}

\* the page images convert_from_path can return
ImageSeqs ==
    UNION {{[i \in 1..n |-> [index |-> i, width |-> f[i][1], height |-> f[i][2],
                             encoding |-> "raw"]] : f \in [1..n -> Dims]}
           : n \in 1..MaxPages}

OldOutput == File("pdf", <<>>, EmptyStr, EmptyStr, "old")

\* a compacted document on disk, for a direct call of set_metadata
SomeCompacted ==
    File("pdf", <<[width |-> 1, height |-> 2, image |-> 1, encoding |-> "jpeg50"]>>,
         EmptyStr, EmptyStr, "compacted")

(***************************************************************************)
(* State                                                                   *)
(***************************************************************************)
VARIABLES
    entry,                    \* the function called: flatten_pdf or set_metadata
    platform,                 \* platform.system()
    input_exists,             \* os.path.exists(pdf_path)
    creation_date,            \* argument creation_date
    modification_date,        \* argument modification_date
    pc,                       \* position in the called function
    exc,                      \* exception being propagated, "none" if none
    raised_at,                \* pc at which exc was raised
    steps,                    \* pipeline steps that have succeeded, in order
    disk,                     \* content of the output path and the temp paths
    out_before,               \* content of the output path before the call
    images,                   \* result of extract_images_from_pdf
    doc_pages,                \* pages of the fitz document being assembled
    original_creation_dt,
    original_modification_dt,
    creation_dt,
    modification_dt,
    file_times,               \* times set on the output file by set_file_times
    created,                  \* temp paths safe_temp_file has created
    remove_failed,            \* temp paths whose os.remove raised OSError
    compacted,                \* what compress_pdf wrote
    ft_outcome                \* outcome of the calls made by set_file_times

vars == <<entry, platform, input_exists, creation_date, modification_date, pc,
          exc, raised_at, steps, disk, out_before, images, doc_pages,
          original_creation_dt, original_modification_dt, creation_dt,
          modification_dt, file_times, created, remove_failed, compacted,
          ft_outcome>>

args == <<entry, platform, input_exists, creation_date, modification_date,
          out_before>>

dates == <<original_creation_dt, original_modification_dt, creation_dt,
           modification_dt>>

Init ==
    /\ entry \in {"flatten_pdf", "set_metadata"}
    /\ platform \in (IF entry = "flatten_pdf" THEN Platforms ELSE {"Linux"})
    /\ input_exists \in (IF entry = "flatten_pdf" THEN BOOLEAN ELSE {TRUE})
    /\ creation_date \in CreationArgs
    /\ modification_date \in ModificationArgs
    /\ pc = IF entry = "flatten_pdf" THEN "start" ELSE "call_set_metadata"
    /\ exc = "none"
    /\ raised_at = "none"
    /\ steps = <<>>
    /\ out_before \in (IF entry = "flatten_pdf" THEN {Absent, OldOutput} ELSE {Absent})
    /\ disk = [p \in Paths |->
                 IF p = OutPath THEN out_before
                 ELSE IF p = CmpPath /\ entry = "set_metadata" THEN SomeCompacted
                 ELSE Absent]
    /\ images = <<>>
    /\ doc_pages = <<>>
    /\ original_creation_dt = NoDt
    /\ original_modification_dt = NoDt
    /\ creation_dt = NoDt
    /\ modification_dt = NoDt
    /\ file_times = NoTimes
    /\ created = {}
    /\ remove_failed = {}
    /\ compacted = IF entry = "set_metadata" THEN SomeCompacted ELSE Absent
    /\ ft_outcome = "none"

(***************************************************************************)
(* Sequencing of flatten_pdf                                               *)
(***************************************************************************)
AfterStep_moveFirst(p) ==
    CASE p = "start" -> "tmp_asm"
      [] p = "tmp_asm" -> "extract"
      [] p = "extract" -> "assemble_page"
      [] p = "assemble_page" -> "assemble_save"
      [] p = "assemble_save" -> "tmp_cmp"
      [] p = "tmp_cmp" -> "compress"
      [] p = "compress" -> "read_meta"
      [] p = "read_meta" -> "resolve"
      [] p = "resolve" -> "clamp"
      [] p = "clamp" -> "move"
      [] p = "move" -> "set_metadata"
      [] p = "set_metadata" -> "set_file_times"
      [] p = "set_file_times" -> "exit_cmp"
      [] p = "exit_cmp" -> "exit_asm"
      [] OTHER -> "done"

\* the statement reached when the statement at p completes normally
AfterStep(p) ==
    CASE p = "start" -> "tmp_asm"
      [] p = "tmp_asm" -> "extract"
      [] p = "extract" -> "assemble_page"
      [] p = "assemble_page" -> "assemble_save"
      [] p = "assemble_save" -> "tmp_cmp"
      [] p = "tmp_cmp" -> "compress"
      [] p = "compress" -> "read_meta"
      [] p = "read_meta" -> "resolve"
      [] p = "resolve" -> "clamp"
      [] p = "clamp" -> "set_metadata"
      [] p = "set_metadata" -> "move"
      [] p = "move" -> "set_file_times"
      [] p = "set_file_times" -> "exit_cmp"
      [] p = "exit_cmp" -> "exit_asm"
      [] OTHER -> "done"

\* where an exception raised at p goes first: the finally block of the
\* innermost safe_temp_file whose file exists, else out of flatten_pdf
Unwind(p) ==
    IF p \in {"start", "tmp_asm"} THEN "failed"
    ELSE IF p \in {"extract", "assemble_page", "assemble_save", "tmp_cmp"}
         THEN "exit_asm"
    ELSE "exit_cmp"

Raise(kind) ==
    /\ exc' = kind
    /\ raised_at' = pc
    /\ pc' = Unwind(pc)

Proceed ==
    /\ pc' = AfterStep(pc)
    /\ UNCHANGED <<exc, raised_at>>

InputMissing_never(exists) == FALSE

\* line 213: not os.path.exists(pdf_path)
InputMissing(exists) == ~exists

(***************************************************************************)
(* flatten_pdf                                                             *)
(***************************************************************************)
\* lines 213-214
Start ==
    /\ entry = "flatten_pdf"
    /\ pc = "start"
    /\ IF InputMissing(input_exists)
       THEN Raise("FileNotFoundError")
       ELSE Proceed
    /\ UNCHANGED <<args, steps, disk, images, doc_pages, dates, file_times,
                   created, remove_failed, compacted, ft_outcome>>

\* line 217: safe_temp_file(suffix=".pdf") creates the file of the
\* assembled document
EnterAsm ==
    /\ pc = "tmp_asm"
    /\ \E o \in {"ok", "fail"} :
         IF o = "ok"
         THEN /\ disk' = [disk EXCEPT ![AsmPath] = EmptyFile]
              /\ created' = created \cup {AsmPath}
              /\ Proceed
         ELSE /\ Raise("OSError")
              /\ UNCHANGED <<disk, created>>
    /\ UNCHANGED <<args, steps, images, doc_pages, dates, file_times,
                   remove_failed, compacted, ft_outcome>>

\* line 218: extract_images_from_pdf(pdf_path, dpi)
Extract ==
    /\ pc = "extract"
    /\ IF ~input_exists
       THEN /\ Raise("FileNotFoundError")
            /\ UNCHANGED <<steps, images>>
       ELSE \E o \in {"ok", "fail"}, imgs \in ImageSeqs :
              IF o = "ok"
              THEN /\ images' = imgs
                   /\ steps' = Append(steps, "rasterize")
                   /\ Proceed
              ELSE /\ Raise("RenderError")
                   /\ UNCHANGED <<steps, images>>
    /\ UNCHANGED <<args, disk, doc_pages, dates, file_times, created,
                   remove_failed, compacted, ft_outcome>>

\* lines 151-157: one iteration of the loop of create_pdf_from_images
AssemblePage ==
    /\ pc = "assemble_page"
    /\ LET i == Len(doc_pages) + 1
           jpg == JpgPath(i)
       IN \E tc \in {"ok", "fail"}, sv \in {"ok", "fail"},
             rm \in RemoveOutcomes(platform) :
            IF tc = "fail"
            THEN /\ Raise("OSError")
                 /\ UNCHANGED <<disk, doc_pages, created, remove_failed>>
            ELSE LET d1 == [disk EXCEPT ![jpg] = EmptyFile]
                     d2 == [disk EXCEPT ![jpg] =
                              File("jpeg", <<JpegSave(images[i])>>, EmptyStr,
                                   EmptyStr, "none")]
                     pix == d2[jpg].pages[1]
                     dz == IF sv = "ok" THEN d2 ELSE d1
                 IN /\ created' = created \cup {jpg}
                    /\ disk' = Release(dz, jpg, platform, rm)
                    /\ remove_failed' =
                         IF RemoveRaised(dz, jpg, rm)
                         THEN remove_failed \cup {jpg} ELSE remove_failed
                    /\ IF sv = "ok"
                       THEN /\ doc_pages' = NewPage(doc_pages, pix)
                            /\ pc' = IF Len(doc_pages') = Len(images)
                                     THEN AfterStep(pc) ELSE pc
                            /\ UNCHANGED <<exc, raised_at>>
                       ELSE /\ Raise("SaveError")
                            /\ UNCHANGED doc_pages
    /\ UNCHANGED <<args, steps, images, dates, file_times, compacted,
                   ft_outcome>>

\* lines 159-160: doc.save(output_path)
AssembleSave ==
    /\ pc = "assemble_save"
    /\ \E o \in {"ok", "fail"} :
         IF o = "ok"
         THEN /\ disk' = [disk EXCEPT ![AsmPath] =
                            File("pdf", doc_pages, EmptyStr, EmptyStr, "assembled")]
              /\ steps' = Append(steps, "assemble")
              /\ Proceed
         ELSE /\ Raise("SaveError")
              /\ UNCHANGED <<disk, steps>>
    /\ UNCHANGED <<args, images, doc_pages, dates, file_times, created,
                   remove_failed, compacted, ft_outcome>>

\* line 221: safe_temp_file(suffix=".pdf") creates the file of the
\* compacted document
EnterCmp ==
    /\ pc = "tmp_cmp"
    /\ \E o \in {"ok", "fail"} :
         IF o = "ok"
         THEN /\ disk' = [disk EXCEPT ![CmpPath] = EmptyFile]
              /\ created' = created \cup {CmpPath}
              /\ Proceed
         ELSE /\ Raise("OSError")
              /\ UNCHANGED <<disk, created>>
    /\ UNCHANGED <<args, steps, images, doc_pages, dates, file_times,
                   remove_failed, compacted, ft_outcome>>

\* line 222: compress_pdf(temp_output_path, compressed_output_path)
Compress ==
    /\ pc = "compress"
    /\ \E o \in {"ok", "fail"} :
         IF o = "ok"
         THEN /\ disk' = [disk EXCEPT ![CmpPath] = CompressPdf(disk[AsmPath])]
              /\ compacted' = CompressPdf(disk[AsmPath])
              /\ steps' = Append(steps, "compact")
              /\ Proceed
         ELSE /\ Raise("SaveError")
              /\ UNCHANGED <<disk, compacted, steps>>
    /\ UNCHANGED <<args, images, doc_pages, dates, file_times, created,
                   remove_failed, ft_outcome>>

\* lines 225-244: the original document's dates, from its metadata or,
\* when a field is empty, from the input file's ctime / mtime
ReadMeta ==
    /\ pc = "read_meta"
    /\ \E open_ok \in BOOLEAN, ocd \in OriginalCreationDates,
          omd \in OriginalModDates, ct \in FsCtimes, mt \in FsMtimes :
         LET oc == IF ocd # EmptyStr THEN StrptimePdf(ocd) ELSE ct
             om == IF omd # EmptyStr THEN StrptimePdf(omd) ELSE mt
         IN IF ~open_ok
            THEN /\ Raise("OpenError")
                 /\ UNCHANGED dates
            ELSE IF oc = ValueErr \/ om = ValueErr
            THEN /\ Raise("ValueError")
                 /\ UNCHANGED dates
            ELSE /\ original_creation_dt' = oc
                 /\ original_modification_dt' = om
                 /\ UNCHANGED <<creation_dt, modification_dt>>
                 /\ Proceed
    /\ UNCHANGED <<args, steps, disk, images, doc_pages, file_times, created,
                   remove_failed, compacted, ft_outcome>>

\* lines 247-265
Resolve ==
    /\ pc = "resolve"
    /\ LET c == Combine(creation_date, original_creation_dt)
           m == Combine(modification_date, original_modification_dt)
       IN IF c = ValueErr \/ m = ValueErr
          THEN /\ Raise("ValueError")
               /\ UNCHANGED dates
          ELSE /\ creation_dt' = c
               /\ modification_dt' = m
               /\ UNCHANGED <<original_creation_dt, original_modification_dt>>
               /\ Proceed
    /\ UNCHANGED <<args, steps, disk, images, doc_pages, file_times, created,
                   remove_failed, compacted, ft_outcome>>

\* lines 268-269
ClampStep ==
    /\ pc = "clamp"
    /\ modification_dt' = Clamp(creation_dt, modification_dt)
    /\ Proceed
    /\ UNCHANGED <<args, steps, disk, images, doc_pages, original_creation_dt,
                   original_modification_dt, creation_dt, file_times, created,
                   remove_failed, compacted, ft_outcome>>

\* lines 272-276: set_metadata on the compacted file, with the resolved
\* instants formatted as YYYY-MM-DD
FlattenSetMetadata ==
    /\ pc = "set_metadata"
    /\ \E open_ok \in BOOLEAN, save \in {"ok", "fail", "partial"} :
         LET r == SetMetadata(disk[CmpPath], StrftimeDate(creation_dt),
                              StrftimeDate(modification_dt), open_ok, save)
         IN /\ disk' = [disk EXCEPT ![CmpPath] = r.file]
            /\ IF r.exc = "none"
               THEN /\ steps' = Append(steps, "set_metadata")
                    /\ Proceed
               ELSE /\ Raise(r.exc)
                    /\ UNCHANGED steps
    /\ UNCHANGED <<args, images, doc_pages, dates, file_times, created,
                   remove_failed, compacted, ft_outcome>>

\* line 279: shutil.move(compressed_output_path, output_path)
Move ==
    /\ pc = "move"
    /\ \E o \in {"ok", "fail"} :
         IF o = "ok"
         THEN /\ disk' = [disk EXCEPT ![OutPath] = disk[CmpPath],
                                      ![CmpPath] = Absent]
              /\ steps' = Append(steps, "move")
              /\ Proceed
         ELSE /\ Raise("OSError")
              /\ UNCHANGED <<disk, steps>>
    /\ UNCHANGED <<args, images, doc_pages, dates, file_times, created,
                   remove_failed, compacted, ft_outcome>>

\* line 282: set_file_times(output_path, creation_dt, modification_dt)
SetTimes ==
    /\ pc = "set_file_times"
    /\ \E o \in FileTimeOutcomes(platform) :
         LET r == SetFileTimes(file_times, platform, creation_dt,
                               modification_dt, o)
         IN /\ file_times' = r.times
            /\ ft_outcome' = o
            /\ IF r.exc = "none"
               THEN /\ steps' = Append(steps, "set_file_times")
                    /\ Proceed
               ELSE /\ Raise(r.exc)
                    /\ UNCHANGED steps
    /\ UNCHANGED <<args, disk, images, doc_pages, dates, created,
                   remove_failed, compacted>>

\* leaving the inner with block (line 221), normally or by an exception
ExitCmp ==
    /\ pc = "exit_cmp"
    /\ \E rm \in RemoveOutcomes(platform) :
         /\ disk' = Release(disk, CmpPath, platform, rm)
         /\ remove_failed' = IF RemoveRaised(disk, CmpPath, rm)
                             THEN remove_failed \cup {CmpPath}
                             ELSE remove_failed
    /\ pc' = "exit_asm"
    /\ UNCHANGED <<args, exc, raised_at, steps, images, doc_pages, dates,
                   file_times, created, compacted, ft_outcome>>

\* leaving the outer with block (line 217), then lines 284-286: the
\* exception, if any, is logged and raised again
ExitAsm ==
    /\ pc = "exit_asm"
    /\ \E rm \in RemoveOutcomes(platform) :
         /\ disk' = Release(disk, AsmPath, platform, rm)
         /\ remove_failed' = IF RemoveRaised(disk, AsmPath, rm)
                             THEN remove_failed \cup {AsmPath}
                             ELSE remove_failed
    /\ pc' = IF exc = "none" THEN "done" ELSE "failed"
    /\ UNCHANGED <<args, exc, raised_at, steps, images, doc_pages, dates,
                   file_times, created, compacted, ft_outcome>>

(***************************************************************************)
(* set_metadata called directly                                            *)
(***************************************************************************)
CallSetMetadata ==
    /\ entry = "set_metadata"
    /\ pc = "call_set_metadata"
    /\ \E open_ok \in BOOLEAN, save \in {"ok", "fail", "partial"} :
         LET r == SetMetadata(disk[CmpPath], creation_date, modification_date,
                              open_ok, save)
         IN /\ disk' = [disk EXCEPT ![CmpPath] = r.file]
            /\ exc' = r.exc
            /\ raised_at' = IF r.exc = "none" THEN "none" ELSE pc
            /\ pc' = IF r.exc = "none" THEN "done" ELSE "failed"
    /\ UNCHANGED <<args, steps, images, doc_pages, dates, file_times, created,
                   remove_failed, compacted, ft_outcome>>

Next ==
    \/ Start
    \/ EnterAsm
    \/ Extract
    \/ AssemblePage
    \/ AssembleSave
    \/ EnterCmp
    \/ Compress
    \/ ReadMeta
    \/ Resolve
    \/ ClampStep
    \/ FlattenSetMetadata
    \/ Move
    \/ SetTimes
    \/ ExitCmp
    \/ ExitAsm
    \/ CallSetMetadata

Spec == Init /\ [][Next]_vars

Terminal == pc \in {"done", "failed"}

(***************************************************************************)
(* Properties                                                              *)
(***************************************************************************)
Flatten == entry = "flatten_pdf"

\* the resolved pair exists and line 269 has been passed
Clamped ==
    /\ Flatten
    /\ pc # "clamp"
    /\ creation_dt # NoDt

\* C1: the resolved pair satisfies modification >= creation, and the clamp
\* step sets modification equal to creation, leaving creation alone,
\* whenever the combined modification is earlier than the combined creation.
C1_ClampInvariant ==
    /\ [](Clamped => ~DtLess(modification_dt, creation_dt))
    /\ [][pc = "clamp" =>
            /\ creation_dt' = creation_dt
            /\ (DtLess(modification_dt, creation_dt)
                  => modification_dt' = creation_dt)
            /\ (~DtLess(modification_dt, creation_dt)
                  => modification_dt' = modification_dt)]_vars

C1_Witness ==
    /\ pc = "set_metadata"
    /\ creation_date = <<"2", "0", "2", "1", "-", "0", "6", "-", "1", "5">>
    /\ modification_date = <<"2", "0", "2", "1", "-", "0", "1", "-", "0", "1">>
    /\ original_creation_dt = DateTime(2020, 1, 1, 10, 0, 0, 0)
    /\ original_modification_dt = DateTime(2020, 1, 2, 11, 0, 0, 0)
    /\ creation_dt = DateTime(2021, 6, 15, 10, 0, 0, 0)
    /\ modification_dt = DateTime(2021, 6, 15, 10, 0, 0, 0)

\* a resolved instant d built from the argument a and the original o
CombinedFrom(d, a, o) ==
    IF Truthy(a)
    THEN /\ StrftimeDate(d) = a
         /\ d.hour = o.hour
         /\ d.minute = o.minute
         /\ d.second = o.second
         /\ d.microsecond = 0
    ELSE d = o

\* C2: before the clamp, creation is the user's calendar date with the
\* original creation's hour, minute and second, or the original creation
\* itself when no date is given; modification likewise from the user's
\* modification date and the original modification.
C2_CombineBeforeClamp ==
    (Flatten /\ pc = "clamp") =>
        /\ CombinedFrom(creation_dt, creation_date, original_creation_dt)
        /\ CombinedFrom(modification_dt, modification_date,
                        original_modification_dt)

C2_Witness ==
    /\ pc = "clamp"
    /\ Truthy(creation_date)
    /\ Truthy(modification_date)
    /\ original_creation_dt.second = 30
    /\ original_creation_dt.hour # original_modification_dt.hour
    /\ creation_dt.second = 30

\* C3 as stated: when flatten_pdf has ended, no file created by
\* safe_temp_file is on disk.
C3_NoTempFileRemains ==
    (Flatten /\ Terminal) => \A p \in created : disk[p].kind = "absent"

\* C3 amended: when flatten_pdf has ended, a file created by
\* safe_temp_file is on disk only if os.remove raised OSError for it.
C3_TempFileRemainsOnlyIfRemoveFailed ==
    (Flatten /\ Terminal) =>
        \A p \in created : disk[p].kind # "absent" => p \in remove_failed

C3_Witness ==
    /\ Flatten
    /\ pc = "failed"
    /\ raised_at = "set_metadata"
    /\ created = {AsmPath, CmpPath, JpgPath(1)}
    /\ remove_failed = {}
    /\ \A p \in created : disk[p].kind = "absent"

\* C4: flatten_pdf on a missing input fails with FileNotFoundError, creates
\* no temp file and leaves the output path as it was.
C4_MissingInput ==
    (Flatten /\ ~input_exists /\ pc # "start") =>
        /\ pc = "failed"
        /\ exc = "FileNotFoundError"
        /\ created = {}
        /\ disk[OutPath] = out_before
        /\ \A p \in TempPaths : disk[p] = Absent

C4_Witness ==
    /\ Flatten
    /\ ~input_exists
    /\ pc = "failed"
    /\ out_before = OldOutput

Canonical ==
    <<"rasterize", "assemble", "compact", "set_metadata", "move",
      "set_file_times">>

IsPrefix(s, t) == Len(s) <= Len(t) /\ SubSeq(t, 1, Len(s)) = s

StepOf(p) ==
    CASE p = "extract" -> "rasterize"
      [] p \in {"assemble_page", "assemble_save"} -> "assemble"
      [] p \in {"tmp_cmp", "compress"} -> "compact"
      [] p \in {"read_meta", "resolve", "clamp", "set_metadata"} -> "set_metadata"
      [] p = "move" -> "move"
      [] p = "set_file_times" -> "set_file_times"
      [] OTHER -> "none"

\* C5: the steps succeed in the order rasterize, assemble, compact,
\* set metadata, move, set file times; once a step has raised, that
\* exception is the one flatten_pdf ends with, no further step runs and
\* the output path is not written; the output path is written only after
\* the metadata step has succeeded.
C5_StepOrder ==
    /\ [](Flatten =>
            /\ IsPrefix(steps, Canonical)
            /\ (exc # "none" =>
                  /\ pc \in {"exit_cmp", "exit_asm", "failed"}
                  /\ \A i \in 1..Len(steps) : steps[i] # StepOf(raised_at))
            /\ (pc = "failed" => exc # "none")
            /\ (pc = "done" => exc = "none" /\ steps = Canonical)
            /\ (disk[OutPath] # out_before =>
                  \E i \in 1..Len(steps) : steps[i] = "set_metadata"))
    /\ [][(Flatten /\ exc # "none") =>
            /\ exc' = exc
            /\ steps' = steps
            /\ disk'[OutPath] = disk[OutPath]]_vars

C5_Witness ==
    /\ Flatten
    /\ pc = "failed"
    /\ raised_at = "compress"
    /\ exc = "SaveError"
    /\ steps = <<"rasterize", "assemble">>
    /\ disk[OutPath] = out_before

\* the incremental save of set_metadata has just raised
SetMetadataSaveFailed ==
    /\ exc = "SaveError"
    /\ \/ Flatten /\ raised_at = "set_metadata" /\ pc = "exit_cmp"
       \/ entry = "set_metadata" /\ pc = "failed"

\* C6 as stated: a failed incremental write of set_metadata leaves the
\* compacted document, as compress_pdf wrote it, untouched.
C6_CompactedUntouched ==
    SetMetadataSaveFailed => disk[CmpPath] = compacted

\* C6 amended: set_metadata saves in place onto the compacted temporary
\* file, which a failed write may leave changed; a failed set_metadata
\* leaves the output path untouched, and the output path only ever
\* receives a document whose metadata write fully succeeded.
C6_OutputUntouched ==
    /\ []((raised_at \in {"set_metadata", "call_set_metadata"} /\ exc # "none")
            => disk[OutPath] = out_before)
    /\ [][disk'[OutPath] # disk[OutPath] =>
            /\ disk[CmpPath].state = "updated"
            /\ disk'[OutPath] = disk[CmpPath]]_vars

C6_Witness ==
    /\ Flatten
    /\ SetMetadataSaveFailed
    /\ disk[CmpPath].state = "partial"
    /\ disk[OutPath] = out_before
    /\ out_before = OldOutput

\* C7 as stated: whichever call of set_file_times fails, flatten_pdf
\* still completes successfully with the output file in place.
C7_TimestampFailureNonFatal ==
    (Flatten /\ Terminal /\ ft_outcome \notin {"none", "ok"}) =>
        /\ pc = "done"
        /\ exc = "none"
        /\ disk[OutPath].state = "updated"

\* the arguments of the model that are calendar dates in YYYY-MM-DD form
ValidDateStrings ==
    {<<"2", "0", "2", "1", "-", "0", "6", "-", "1", "5">>,
     <<"2", "0", "2", "1", "-", "0", "1", "-", "0", "1">>}

\* C8 as stated: a date argument that is given and is no valid calendar
\* date makes set_metadata fail with ValueError without saving, and makes
\* flatten_pdf fail with ValueError without writing the output path.
C8_InvalidDateFails ==
    (\/ (creation_date # NoneArg /\ creation_date \notin ValidDateStrings)
     \/ (modification_date # NoneArg /\ modification_date \notin ValidDateStrings))
    => /\ (entry = "set_metadata" /\ pc # "call_set_metadata") =>
             /\ pc = "failed"
             /\ exc \in {"ValueError", "OpenError"}
             /\ disk[CmpPath] = SomeCompacted
       /\ Flatten =>
             /\ disk[OutPath] = out_before
             /\ pc \notin {"clamp", "set_metadata", "move", "set_file_times",
                           "done"}
             /\ (raised_at = "resolve" => exc = "ValueError")

\* C8 amended: a non-empty date argument that is no valid calendar date
\* makes set_metadata, once it has opened the document, fail with
\* ValueError without saving, and makes flatten_pdf fail at date
\* resolution with ValueError without writing the output path; an empty
\* string is treated as no date.
C8_NonEmptyInvalidDateFails ==
    (\/ (Truthy(creation_date) /\ creation_date \notin ValidDateStrings)
     \/ (Truthy(modification_date) /\ modification_date \notin ValidDateStrings))
    => /\ (entry = "set_metadata" /\ pc # "call_set_metadata") =>
             /\ pc = "failed"
             /\ exc \in {"ValueError", "OpenError"}
             /\ disk[CmpPath] = SomeCompacted
       /\ Flatten =>
             /\ disk[OutPath] = out_before
             /\ pc \notin {"clamp", "set_metadata", "move", "set_file_times",
                           "done"}
             /\ (raised_at = "resolve" => exc = "ValueError")

C8_Witness ==
    /\ Flatten
    /\ creation_date = <<"2", "0", "2", "1", "-", "0", "2", "-", "3", "0">>
    /\ pc = "failed"
    /\ raised_at = "resolve"
    /\ exc = "ValueError"
    /\ out_before = OldOutput

\* C9: the document create_pdf_from_images saves has one page per input
\* image, page i built from image i with image i's width and height.
C9_PagesMatchImages ==
    (Flatten /\ pc = "tmp_cmp") =>
        LET pages == disk[AsmPath].pages
        IN /\ Len(pages) = Len(images)
           /\ \A i \in 1..Len(images) :
                /\ pages[i].image = images[i].index
                /\ pages[i].width = images[i].width
                /\ pages[i].height = images[i].height

C9_Witness ==
    /\ Flatten
    /\ pc = "tmp_cmp"
    /\ Len(images) = 2
    /\ images[1].width # images[2].width
    /\ Len(disk[AsmPath].pages) = 2

\* a PDF date string that carries the calendar date of dt, time 00:00:00
\* and offset +00'00'
MidnightOf(str, dt) ==
    /\ Len(str) = 23
    /\ SubSeq(str, 1, 2) = <<"D", ":">>
    /\ NumVal(SubSeq(str, 3, 6)) = dt.year
    /\ NumVal(SubSeq(str, 7, 8)) = dt.month
    /\ NumVal(SubSeq(str, 9, 10)) = dt.day
    /\ SubSeq(str, 11, 16) = <<"0", "0", "0", "0", "0", "0">>
    /\ SubSeq(str, 17, 23) = <<"+", "0", "0", "'", "0", "0", "'">>

MetadataDateOnly ==
    /\ MidnightOf(disk[OutPath].creationDate, creation_dt)
    /\ MidnightOf(disk[OutPath].modDate, modification_dt)
    /\ NumVal(SubSeq(disk[OutPath].modDate, 3, 10))
         >= NumVal(SubSeq(disk[OutPath].creationDate, 3, 10))

\* C10 as stated: the metadata dates of the output carry only the calendar
\* dates of the resolved pair, at 00:00:00+00'00', with modDate >=
\* creationDate, and every filesystem time applied is a full resolved
\* instant.
C10_MetadataDateOnlyFileTimesFull ==
    (Flatten /\ pc = "done") =>
        /\ MetadataDateOnly
        /\ file_times.set
        /\ file_times.mtime = Timestamp(modification_dt)
        /\ file_times.atime = Timestamp(modification_dt)
        /\ (file_times.creation_set =>
              file_times.creation = Timestamp(creation_dt))

\* C10 amended: as stated for the metadata and for the modification and
\* access times; the creation time is applied only on macOS and carries the
\* resolved creation instant to the minute, its seconds dropped.
C10_MetadataDateOnlyCreationToMinute ==
    (Flatten /\ pc = "done") =>
        /\ MetadataDateOnly
        /\ file_times.set
        /\ file_times.mtime = Timestamp(modification_dt)
        /\ file_times.atime = Timestamp(modification_dt)
        /\ (file_times.creation_set =>
              /\ platform = "Darwin"
              /\ file_times.creation =
                   Timestamp([creation_dt EXCEPT !.second = 0,
                                                 !.microsecond = 0]))

C10_Witness ==
    /\ Flatten
    /\ pc = "done"
    /\ platform = "Darwin"
    /\ file_times.creation_set
    /\ creation_dt.second = 30
    /\ creation_dt.hour = 10
    /\ modification_dt.hour = 11
====
